---- MODULE Spec2Model ----
(***************************************************************************)
(* Student / difficulty-type matcher.                                      *)
(*                                                                         *)
(* The front end (TypeScript, Svelte) calls a backend process through      *)
(* invoke(); the backend joins a student table with a difficulty table on  *)
(* the identity number, restricted to one difficulty type.  The join and   *)
(* the statistics are modelled from the written specification of the      *)
(* engine; executeStudentSearch, the helpers of the command library and   *)
(* the component StudentMatcher.svelte are modelled from the source.       *)
(*                                                                         *)
(*   SpecEngine              the backend commands called directly          *)
(*   Spec                    executeStudentSearch as a process             *)
(*   SpecMask                maskIdNumber called on its own                *)
(*   SpecStudentMatcher      the component, its handlers and timers        *)
(*   SpecStudentMatcherFair  the component with calls that always settle   *)
(*                                                                         *)
(* TLA+ strings are ASCII, so every Chinese literal of the source is       *)
(* written as an ASCII stand-in with the original in a comment.            *)
(***************************************************************************)
EXTENDS Integers, Sequences, FiniteSets, TLC

\* ------------------------------------------------------------------------
\* Bounds of the model
\* ------------------------------------------------------------------------
MaxStudents == 2      \* rows of the student table
MaxRecords == 2       \* rows of the difficulty table
MaxSearchRows == 1    \* rows of either table under executeStudentSearch

\* ------------------------------------------------------------------------
\* Records
\* ------------------------------------------------------------------------

\* The field names of the records below, each record's in the order of its
\* declaration.  TLC orders the fields of a record by the first occurrence
\* of their names in the module; with this record first, every record
\* constructor below is written in that order.
FieldNames ==
    [ phase |-> "export", matches |-> "search result",
      outputPath |-> "export",
      statistics |-> "search result", valid |-> "validation",
      success |-> "CommandResult",
      data |-> "CommandResult", error |-> "CommandResult",
      status |-> "promise", value |-> "promise", reason |-> "promise",
      command |-> "reply", difficultyType |-> "reply", readable |-> "reply",
      repeated |-> "reply", result |-> "reply",
      total |-> "tally", counts |-> "tally",
      overtaken |-> "search", preReset |-> "search" ]

\* ------------------------------------------------------------------------
\* State
\* ------------------------------------------------------------------------
VARIABLES
    students,       \* rows of the student spreadsheet on disk
    difficulties,   \* rows of the difficulty spreadsheet on disk
    reply,          \* the last backend command issued directly, with its reply
    firstFind,      \* per category, the first match list the backend returned
    pc,             \* executeStudentSearch: "idle", "awaiting" or "returned"
    difficultyType, \* executeStudentSearch: the difficultyType argument
    matchPromise,   \* promise of findStudentsByDifficulty
    statsPromise,   \* promise of getStudentsMatchStatistics
    searchResult,   \* what executeStudentSearch resolved to, None before
    idNumber,       \* maskIdNumber: its argument
    masked,         \* maskIdNumber: what it returned, None before the call
    parameters,     \* validateSearchParameters: its three arguments
    validity,       \* validateSearchParameters: what it returned, None before
    searchInput,    \* searchInMatches: its arguments matches and searchTerm
    searchOutput,   \* searchInMatches: what it returned, None before
    history,        \* whether notes are kept on the searches in flight
    \* StudentMatcher.svelte, the $state fields
    studentFile, difficultyFile, selectedDifficultyType, difficultyTypeOptions,
    matchResults, matchStatistics, isLoading, error, success, hasSearched,
    isExporting, currentPage,
    \* StudentMatcher.svelte, what is pending in the event loop
    optionsLoading, \* the get_difficulty_type_options call of onMount
    validations,    \* validateAndSetFile calls awaiting validate_uploaded_file
    searches,       \* performMatch calls awaiting executeStudentSearch
    exports,        \* exportToExcel calls awaiting the dialog or the backend
    timers          \* setTimeout callbacks of setError / setSuccess, oldest first

engineVars == <<reply, firstFind>>

searchVars == <<pc, difficultyType, matchPromise, statsPromise, searchResult>>

maskVars == <<idNumber, masked>>

validateVars == <<parameters, validity>>

filterVars == <<searchInput, searchOutput>>

helperVars == <<maskVars, validateVars, filterVars, history>>

stateVars == <<studentFile, difficultyFile, selectedDifficultyType,
               difficultyTypeOptions, matchResults, matchStatistics, isLoading,
               error, success, hasSearched, isExporting, currentPage>>

pendingVars == <<optionsLoading, validations, searches, exports, timers>>

componentVars == <<stateVars, pendingVars>>

vars == <<students, difficulties, engineVars, searchVars, helperVars,
          componentVars>>

\* ------------------------------------------------------------------------
\* Data model
\* ------------------------------------------------------------------------

\* T | null : the empty sequence is null, a one-element sequence a value.
None == <<>>

Some(v) == <<v>>

\* type DifficultyType, the fixed enumeration of ten categories:
\*   脱贫户(继续享受政策), 脱贫户(不享受政策), 持证残疾人, 农村低保, 城镇低保,
\*   城乡特困, 防返贫监测对象(风险未消除), 防返贫监测对象(风险已消除),
\*   孤儿及事实无人抚养儿童, 低收入人口
DifficultyType ==
    { "TuoPinHu(JiXuXiangShouZhengCe)", "TuoPinHu(BuXiangShouZhengCe)",
      "ChiZhengCanJiRen", "NongCunDiBao", "ChengZhenDiBao", "ChengXiangTeKun",
      "FangFanPinJianCeDuiXiang(FengXianWeiXiaoChu)",
      "FangFanPinJianCeDuiXiang(FengXianYiXiaoChu)",
      "GuErJiShiShiWuRenFuYangErTong", "DiShouRuRenKou" }

\* The categories that occur in the difficulty tables of the model.
TableTypes == {"NongCunDiBao", "ChengZhenDiBao"}

\* A category string outside the enumeration ("其他").
UnknownCategory == "QiTa"

\* The category strings a caller passes (difficultyType: string).
Categories == TableTypes \cup {UnknownCategory}

\* Identity numbers: two that differ only in the case of the check letter.
IdNumbers == {"44010X", "44010x"}

Names == {"ZhangSan", "LiSi"}

\* interface Student (name and id_number; the optional columns play no
\* part in the join)
Student == [name : Names, id_number : IdNumbers]

\* interface DifficultPerson
DifficultPerson == [id_number : IdNumbers, difficulty_type : TableTypes]

\* All sequences over S of length at most n.
SeqUpTo(S, n) == UNION {[1..k -> S] : k \in 0..n}

StudentTables == SeqUpTo(Student, MaxStudents)

DifficultyTables == SeqUpTo(DifficultPerson, MaxRecords)

Range(s) == {s[i] : i \in DOMAIN s}

\* interface CommandResult<T> { success, data: T | null, error: string | null }
Success(data) == [success |-> TRUE, data |-> Some(data), error |-> None]

Failure(message) == [success |-> FALSE, data |-> None, error |-> Some(message)]

\* ------------------------------------------------------------------------
\* Matching engine (backend): find_matches and compute_statistics
\* ------------------------------------------------------------------------

\* The join key of an identity number: the string itself, compared exactly.
KeyOf(id_number) == id_number

\* Keep the records of the requested category.
FilterAll(D, category) == D

FilterByCategory(D, category) ==
    SelectSeq(D, LAMBDA d : d.difficulty_type = category)

\* Insert a student into the lookup; an existing entry is overwritten.
PutStudentKeepFirst(lookup, s) ==
    IF KeyOf(s.id_number) \in DOMAIN lookup
    THEN lookup
    ELSE [k \in DOMAIN lookup \cup {KeyOf(s.id_number)} |->
            IF k = KeyOf(s.id_number) THEN s ELSE lookup[k]]

PutStudent(lookup, s) ==
    [k \in DOMAIN lookup \cup {KeyOf(s.id_number)} |->
        IF k = KeyOf(s.id_number) THEN s ELSE lookup[k]]

\* The lookup identity_number -> Student, filled in table order.
RECURSIVE BuildLookup(_)
BuildLookup(S) ==
    IF S = <<>>
    THEN <<>>
    ELSE PutStudent(BuildLookup(SubSeq(S, 1, Len(S) - 1)), S[Len(S)])

\* The match list of the previous find_students_by_difficulty reply.
CarriedMatches ==
    IF /\ reply # None
       /\ reply[1].command = "find_students_by_difficulty"
       /\ reply[1].result.success
    THEN reply[1].result.data[1]
    ELSE <<>>

\* The result list a call starts from: empty, nothing is kept between calls.
NoMatches == <<>>

\* One MatchResult per filtered record whose key is in the lookup, in the
\* order of the difficulty table; a record without a student is dropped.
RECURSIVE EmitMatches(_, _)
EmitMatches(filtered, lookup) ==
    IF filtered = <<>>
    THEN NoMatches
    ELSE LET d == filtered[Len(filtered)]
             rest == EmitMatches(SubSeq(filtered, 1, Len(filtered) - 1), lookup)
         IN  IF KeyOf(d.id_number) \in DOMAIN lookup
             THEN Append(rest, [student |-> lookup[KeyOf(d.id_number)],
                                difficult_info |-> d])
             ELSE rest

find_matches(S, D, category) ==
    EmitMatches(FilterByCategory(D, category), BuildLookup(S))

\* Add one to the count of a category, creating the entry when absent.
Increment(counts, type) ==
    IF type \in DOMAIN counts
    THEN [counts EXCEPT ![type] = @ + 1]
    ELSE [t \in DOMAIN counts \cup {type} |->
            IF t = type THEN 1 ELSE counts[t]]

\* The statistics make their own pass over the filtered records: one count
\* per record that has a student.
RECURSIVE TallyMatches(_, _)
TallyMatches(filtered, lookup) ==
    IF filtered = <<>>
    THEN [total |-> 0, counts |-> <<>>]
    ELSE LET d == filtered[Len(filtered)]
             rest == TallyMatches(SubSeq(filtered, 1, Len(filtered) - 1), lookup)
         IN  IF KeyOf(d.id_number) \in DOMAIN lookup
             THEN [total |-> rest.total + 1,
                   counts |-> Increment(rest.counts, d.difficulty_type)]
             ELSE rest

\* Statistics that count every record of the category, matched or not.
compute_statistics_counting_records(S, D, category) ==
    [total_students |-> Len(S),
     total_matches |-> Len(FilterByCategory(D, category)),
     difficulty_type_counts |->
        TallyMatches(FilterByCategory(D, category), BuildLookup(S)).counts]

\* Statistics that take the number of students from the lookup.
compute_statistics_lookup_size(S, D, category) ==
    [total_students |-> Cardinality(DOMAIN BuildLookup(S)),
     total_matches |->
        TallyMatches(FilterByCategory(D, category), BuildLookup(S)).total,
     difficulty_type_counts |->
        TallyMatches(FilterByCategory(D, category), BuildLookup(S)).counts]

compute_statistics(S, D, category) ==
    LET tally == TallyMatches(FilterByCategory(D, category), BuildLookup(S))
    IN  [total_students |-> Len(S),
         total_matches |-> tally.total,
         difficulty_type_counts |-> tally.counts]

\* Messages of the backend for a table it cannot read
\* (学生信息表读取失败 / 困难类型数据表读取失败).
StudentFileError == "DuQuXueShengXinXiBiaoShiBai"

DifficultyFileError == "DuQuKunNanLeiXingBiaoShiBai"

\* What the backend would answer if it rejected a category outside the
\* enumeration ("未知的困难类型").
UnknownCategoryError == "WeiZhiDeKunNanLeiXing"

\* What the backend would answer if a record without a student were an error
\* ("未找到对应的学生").
OrphanRecordError == "WeiZhaoDaoDuiYingDeXueSheng"

FindStudentsCheckingCategory(studentTable, difficultyTable, difficulty_type) ==
    IF studentTable = None THEN Failure(StudentFileError)
    ELSE IF difficultyTable = None THEN Failure(DifficultyFileError)
    ELSE IF difficulty_type \notin DifficultyType THEN Failure(UnknownCategoryError)
    ELSE Success(find_matches(studentTable[1], difficultyTable[1], difficulty_type))

FindStudentsOrphanIsError(studentTable, difficultyTable, difficulty_type) ==
    IF studentTable = None THEN Failure(StudentFileError)
    ELSE IF difficultyTable = None THEN Failure(DifficultyFileError)
    ELSE IF \E i \in DOMAIN difficultyTable[1] :
                /\ difficultyTable[1][i].difficulty_type = difficulty_type
                /\ KeyOf(difficultyTable[1][i].id_number)
                       \notin DOMAIN BuildLookup(studentTable[1])
    THEN Failure(OrphanRecordError)
    ELSE Success(find_matches(studentTable[1], difficultyTable[1], difficulty_type))

\* Backend command find_students_by_difficulty: both tables are read anew;
\* a table that cannot be read is None.
find_students_by_difficulty(studentTable, difficultyTable, difficulty_type) ==
    IF studentTable = None THEN Failure(StudentFileError)
    ELSE IF difficultyTable = None THEN Failure(DifficultyFileError)
    ELSE Success(find_matches(studentTable[1], difficultyTable[1], difficulty_type))

\* Statistics that tally the records of every category.
GetStatisticsOfEveryCategory(studentTable, difficultyTable, difficulty_type) ==
    IF studentTable = None THEN Failure(StudentFileError)
    ELSE IF difficultyTable = None THEN Failure(DifficultyFileError)
    ELSE LET tally == TallyMatches(FilterAll(difficultyTable[1], difficulty_type),
                                   BuildLookup(studentTable[1]))
         IN  Success([total_students |-> Len(studentTable[1]),
                      total_matches |-> tally.total,
                      difficulty_type_counts |-> tally.counts])

\* Backend command get_students_match_statistics.
get_students_match_statistics(studentTable, difficultyTable, difficulty_type) ==
    IF studentTable = None THEN Failure(StudentFileError)
    ELSE IF difficultyTable = None THEN Failure(DifficultyFileError)
    ELSE Success(compute_statistics(studentTable[1], difficultyTable[1],
                                    difficulty_type))

\* ------------------------------------------------------------------------
\* Command library (front end): generateMatchSummary
\* ------------------------------------------------------------------------

\* counts[type] || 0 : an absent key and a zero are falsy.
CountOrZero(counts, type) ==
    IF type \in DOMAIN counts /\ counts[type] # 0 THEN counts[type] ELSE 0

\* difficultyTypeCounts[type] = (difficultyTypeCounts[type] || 0) + 1
AddOne(counts, type) ==
    [t \in DOMAIN counts \cup {type} |->
        IF t = type THEN CountOrZero(counts, type) + 1 ELSE counts[t]]

\* results.forEach(...) over the match list, from the empty object.
RECURSIVE CountByType(_)
CountByType(results) ==
    IF results = <<>>
    THEN <<>>
    ELSE AddOne(CountByType(SubSeq(results, 1, Len(results) - 1)),
                results[Len(results)].difficult_info.difficulty_type)

\* The summary with an entry for every category of the enumeration.
generateMatchSummaryZeroFilled(results) ==
    [totalMatches |-> Len(results),
     difficultyTypeCounts |->
        [t \in DifficultyType |-> CountOrZero(CountByType(results), t)]]

generateMatchSummary(results) ==
    [totalMatches |-> Len(results),
     difficultyTypeCounts |-> CountByType(results)]

\* ------------------------------------------------------------------------
\* Command library (front end): executeStudentSearch
\* ------------------------------------------------------------------------

\* "查找学生失败"
MatchDefaultError == "ChaZhaoXueShengShiBai"

\* "获取统计信息失败"
StatsDefaultError == "HuoQuTongJiXinXiShiBai"

\* "执行查找时发生错误: "
CatchPrefix == "ZhiXingChaZhaoShiFaShengCuoWu: "

\* What invoke() rejects with when the call itself fails.
MatchInvokeError == "find_students_by_difficulty: invoke failed"

StatsInvokeError == "get_students_match_statistics: invoke failed"

\* error || text : null and the empty string are falsy.
OrElse(message, text) ==
    IF message = None \/ message = Some("") THEN text ELSE message[1]

\* data || fallback : only null is falsy, an empty array is kept.
DataOrElse(data, fallback) == IF data = None THEN fallback ELSE data[1]

ZeroStatistics ==
    [total_students |-> 0, total_matches |-> 0, difficulty_type_counts |-> <<>>]

\* The statements after the await, both promises fulfilled.
ReturnIgnoringStatistics(matchResult, statsResult) ==
    IF ~matchResult.success
    THEN [matches |-> <<>>, statistics |-> ZeroStatistics, success |-> FALSE,
          error |-> Some(OrElse(matchResult.error, MatchDefaultError))]
    ELSE [matches |-> DataOrElse(matchResult.data, <<>>),
          statistics |-> DataOrElse(statsResult.data, ZeroStatistics),
          success |-> TRUE, error |-> None]

\* A variant whose statistics-failure branch returns no matches.
ReturnDroppingMatches(matchResult, statsResult) ==
    IF ~matchResult.success
    THEN [matches |-> <<>>, statistics |-> ZeroStatistics, success |-> FALSE,
          error |-> Some(OrElse(matchResult.error, MatchDefaultError))]
    ELSE IF ~statsResult.success
    THEN [matches |-> <<>>,
          statistics |-> ZeroStatistics, success |-> FALSE,
          error |-> Some(OrElse(statsResult.error, StatsDefaultError))]
    ELSE [matches |-> DataOrElse(matchResult.data, <<>>),
          statistics |-> DataOrElse(statsResult.data, ZeroStatistics),
          success |-> TRUE, error |-> None]

ReturnAfterAwait(matchResult, statsResult) ==
    IF ~matchResult.success
    THEN [matches |-> <<>>, statistics |-> ZeroStatistics, success |-> FALSE,
          error |-> Some(OrElse(matchResult.error, MatchDefaultError))]
    ELSE IF ~statsResult.success
    THEN [matches |-> DataOrElse(matchResult.data, <<>>),
          statistics |-> ZeroStatistics, success |-> FALSE,
          error |-> Some(OrElse(statsResult.error, StatsDefaultError))]
    ELSE [matches |-> DataOrElse(matchResult.data, <<>>),
          statistics |-> DataOrElse(statsResult.data, ZeroStatistics),
          success |-> TRUE, error |-> None]

\* The catch block.
ReturnFromCatch(reason) ==
    [matches |-> <<>>, statistics |-> ZeroStatistics, success |-> FALSE,
     error |-> Some(CatchPrefix \o reason)]

\* Promises of the two invoke() calls.
Pending == [status |-> "pending", value |-> None, reason |-> None]

Fulfilled(value) == [status |-> "fulfilled", value |-> Some(value), reason |-> None]

Rejected(reason) == [status |-> "rejected", value |-> None, reason |-> Some(reason)]

NotStarted == [status |-> "none", value |-> None, reason |-> None]

\* A variant without the catch block: a rejection of Promise.all propagates,
\* so the function never returns a value.
AwaitAllNoCatch(m, s) ==
    IF m.status = "fulfilled" /\ s.status = "fulfilled"
    THEN Some(ReturnAfterAwait(m.value[1], s.value[1]))
    ELSE None

\* A variant that awaits the match query alone first and returns as soon as
\* it reported failure.
AwaitMatchFirst(m, s) ==
    IF m.status = "rejected" THEN Some(ReturnFromCatch(m.reason[1]))
    ELSE IF m.status = "fulfilled" /\ ~m.value[1].success
    THEN Some(ReturnAfterAwait(m.value[1], m.value[1]))
    ELSE IF s.status = "rejected" THEN Some(ReturnFromCatch(s.reason[1]))
    ELSE IF m.status = "fulfilled" /\ s.status = "fulfilled"
    THEN Some(ReturnAfterAwait(m.value[1], s.value[1]))
    ELSE None

\* await Promise.all([m, s]) inside the try: None while the function is still
\* waiting, otherwise what the function returns.  Promise.all rejects with
\* the first rejection and is fulfilled once both promises are.
AwaitAll(m, s) ==
    IF m.status = "rejected" THEN Some(ReturnFromCatch(m.reason[1]))
    ELSE IF s.status = "rejected" THEN Some(ReturnFromCatch(s.reason[1]))
    ELSE IF m.status = "fulfilled" /\ s.status = "fulfilled"
    THEN Some(ReturnAfterAwait(m.value[1], s.value[1]))
    ELSE None

\* The CommandResult as the front end receives it: error is string | null.
Delivered(result, withMessage) ==
    IF result.success \/ withMessage THEN result ELSE [result EXCEPT !.error = None]

\* What reading a spreadsheet gives: its rows, or None when unreadable.
ReadTable(rows, readable) == IF readable THEN Some(rows) ELSE None

\* ------------------------------------------------------------------------
\* maskIdNumber (upload.ts)
\* ------------------------------------------------------------------------
MaxIdLength == 7      \* longest generated identity number

\* The characters identity numbers are generated from.
IdChars == {"4", "X"}

RECURSIVE StringsOfLength(_)
StringsOfLength(n) ==
    IF n = 0 THEN {""}
    ELSE {s \o c : s \in StringsOfLength(n - 1), c \in IdChars}

\* An 18-character identity number.
LongIdNumber == "123456789012345678"

\* The arguments maskIdNumber is called with.
MaskArguments ==
    UNION {StringsOfLength(n) : n \in 0..MaxIdLength}
        \cup IdNumbers \cup {LongIdNumber}

Clamp(i, n) == IF i < 0 THEN 0 ELSE IF i > n THEN n ELSE i

\* String.prototype.substring(start, end): both indices are clamped to
\* [0, length] and swapped when start > end; characters start..end-1.
Substring(s, start, end) ==
    LET a == Clamp(start, Len(s))
        b == Clamp(end, Len(s))
        lo == IF a <= b THEN a ELSE b
        hi == IF a <= b THEN b ELSE a
    IN  IF lo = hi THEN "" ELSE SubSeq(s, lo + 1, hi)

\* A variant that masks only identity numbers longer than six characters.
maskIdNumberOverSix(id_number) ==
    IF Len(id_number) > 6
    THEN Substring(id_number, 0, 3) \o "****"
             \o Substring(id_number, Len(id_number) - 3, Len(id_number))
    ELSE "****"

maskIdNumber(id_number) ==
    IF Len(id_number) >= 6
    THEN Substring(id_number, 0, 3) \o "****"
             \o Substring(id_number, Len(id_number) - 3, Len(id_number))
    ELSE "****"

\* No call of maskIdNumber under way.
InitMaskIdle ==
    /\ idNumber = ""
    /\ masked = None

\* ------------------------------------------------------------------------
\* validateSearchParameters and searchInMatches (student-search.ts)
\* ------------------------------------------------------------------------
MaxTextLength == 2    \* longest generated string argument
MaxListed == 2        \* longest match list given to searchInMatches

\* The white space of the generated strings (String.prototype.trim removes
\* every white-space character; the space stands for them).
WhiteSpace == {" "}

CharAt(s, i) == SubSeq(s, i, i)

RECURSIVE TextsOfLength(_, _)
TextsOfLength(chars, n) ==
    IF n = 0 THEN {""}
    ELSE {s \o c : s \in TextsOfLength(chars, n - 1), c \in chars}

TextsUpTo(chars, n) == UNION {TextsOfLength(chars, k) : k \in 0..n}

RECURSIVE TrimStart(_)
TrimStart(s) ==
    IF Len(s) > 0 /\ CharAt(s, 1) \in WhiteSpace
    THEN TrimStart(Substring(s, 1, Len(s)))
    ELSE s

RECURSIVE TrimEnd(_)
TrimEnd(s) ==
    IF Len(s) > 0 /\ CharAt(s, Len(s)) \in WhiteSpace
    THEN TrimEnd(Substring(s, 0, Len(s) - 1))
    ELSE s

\* String.prototype.trim
Trim(s) == TrimEnd(TrimStart(s))

\* "请选择学生信息表文件"
SelectStudentFileText == "QingXuanZeXueShengXinXiBiaoWenJian"

\* "请选择困难类型数据表文件"
SelectDifficultyFileText == "QingXuanZeKunNanLeiXingShuJuBiaoWenJian"

\* "请选择困难类型"
SelectCategoryText == "QingXuanZeKunNanLeiXing"

Invalid(message) == [valid |-> FALSE, error |-> Some(message)]

Valid == [valid |-> TRUE, error |-> None]

\* A variant that tests the arguments without trimming them.
validateSearchParametersUntrimmed(studentFilePath, difficultyFilePath, category) ==
    IF studentFilePath = "" THEN Invalid(SelectStudentFileText)
    ELSE IF difficultyFilePath = "" THEN Invalid(SelectDifficultyFileText)
    ELSE IF category = "" THEN Invalid(SelectCategoryText)
    ELSE Valid

\* The third argument is difficultyType in the source.
validateSearchParameters(studentFilePath, difficultyFilePath, category) ==
    IF Trim(studentFilePath) = "" THEN Invalid(SelectStudentFileText)
    ELSE IF Trim(difficultyFilePath) = "" THEN Invalid(SelectDifficultyFileText)
    ELSE IF Trim(category) = "" THEN Invalid(SelectCategoryText)
    ELSE Valid

\* The strings validateSearchParameters is called with.
ParameterTexts == TextsUpTo({" ", "a"}, MaxTextLength)

\* No call of validateSearchParameters under way.
InitValidateIdle ==
    /\ parameters = <<"", "", "">>
    /\ validity = None

\* String.prototype.toLowerCase on one character; X and L are the upper-case
\* letters of the generated strings.
LowerCaseOf(c) ==
    CASE c = "X" -> "x"
      [] c = "L" -> "l"
      [] OTHER -> c

RECURSIVE ToLowerCase(_)
ToLowerCase(s) ==
    IF Len(s) = 0 THEN ""
    ELSE ToLowerCase(Substring(s, 0, Len(s) - 1)) \o LowerCaseOf(CharAt(s, Len(s)))

\* String.prototype.includes
Includes(s, t) ==
    \E i \in 0..(Len(s) - Len(t)) : Substring(s, i, i + Len(t)) = t

\* An optional string that is present and not empty (truthy).
Truthy(text) == text # None /\ text[1] # ""

searchInMatches(matches, searchTerm) ==
    IF Trim(searchTerm) = ""
    THEN matches
    ELSE LET term == Trim(ToLowerCase(searchTerm))
         IN  SelectSeq(matches, LAMBDA match :
                 \/ Includes(ToLowerCase(match.student.name), term)
                 \/ Includes(match.student.id_number, term)
                 \/ /\ Truthy(match.student.student_id)
                    /\ Includes(ToLowerCase(match.student.student_id[1]), term)
                 \/ /\ Truthy(match.student.class)
                    /\ Includes(ToLowerCase(match.student.class[1]), term))

\* A MatchResult of a student with the optional columns student_id and
\* class (grade and school are not read by searchInMatches).
ListedMatch(name, id_number, student_id, class) ==
    [student |-> [name |-> name, id_number |-> id_number,
                  student_id |-> student_id, class |-> class],
     difficult_info |-> [id_number |-> id_number,
                         difficulty_type |-> "NongCunDiBao"]]

\* The match results searchInMatches is called on.
ListedMatches ==
    { ListedMatch("Xu", "440104", None, None),
      ListedMatch("Li", "44010X", None, None),
      ListedMatch("li", "44010x", Some("X4"), Some("")),
      ListedMatch("li", "440104", None, Some("4 X")) }

\* The search terms searchInMatches is called with.
SearchTerms == TextsUpTo({" ", "4", "x", "X"}, MaxTextLength)

\* No call of searchInMatches under way.
InitFilterIdle ==
    /\ searchInput = [matches |-> <<>>, searchTerm |-> ""]
    /\ searchOutput = None

\* No call of a helper function under way.
InitHelpersIdle ==
    /\ InitMaskIdle
    /\ InitValidateIdle
    /\ InitFilterIdle
    /\ history = FALSE

\* ------------------------------------------------------------------------
\* StudentMatcher.svelte: the state after construction
\* ------------------------------------------------------------------------
InitComponent ==
    /\ studentFile = None
    /\ difficultyFile = None
    /\ selectedDifficultyType = ""
    /\ difficultyTypeOptions = <<>>
    /\ matchResults = <<>>
    /\ matchStatistics = None
    /\ isLoading = FALSE
    /\ error = ""
    /\ success = ""
    /\ hasSearched = FALSE
    /\ isExporting = FALSE
    /\ currentPage = 1
    /\ optionsLoading = TRUE
    /\ validations = <<>>
    /\ searches = <<>>
    /\ exports = <<>>
    /\ timers = <<>>

InitSearch ==
    /\ pc = "idle"
    /\ difficultyType = None
    /\ matchPromise = NotStarted
    /\ statsPromise = NotStarted
    /\ searchResult = None

InitCalls ==
    /\ reply = None
    /\ firstFind = [c \in Categories |-> None]

\* ------------------------------------------------------------------------
\* The backend commands called directly
\* ------------------------------------------------------------------------
InitEngine ==
    /\ students \in StudentTables
    /\ difficulties \in DifficultyTables
    /\ InitCalls
    /\ InitSearch
    /\ InitHelpersIdle
    /\ InitComponent

\* A caller invokes find_students_by_difficulty; the backend reads both files.
InvokeFindStudents ==
    \E c \in Categories, sOk \in BOOLEAN, dOk \in BOOLEAN :
        LET res == find_students_by_difficulty(ReadTable(students, sOk),
                                               ReadTable(difficulties, dOk), c)
        IN  /\ reply' = Some([command |-> "find_students_by_difficulty",
                              difficultyType |-> c,
                              readable |-> sOk /\ dOk,
                              repeated |-> res.success /\ firstFind[c] # None,
                              result |-> res])
            /\ firstFind' = IF res.success /\ firstFind[c] = None
                            THEN [firstFind EXCEPT ![c] = Some(res.data[1])]
                            ELSE firstFind
            /\ UNCHANGED <<students, difficulties>>
            /\ UNCHANGED <<searchVars, helperVars, componentVars>>

\* A caller invokes get_students_match_statistics.
InvokeGetStatistics ==
    \E c \in Categories, sOk \in BOOLEAN, dOk \in BOOLEAN :
        LET res == get_students_match_statistics(ReadTable(students, sOk),
                                                 ReadTable(difficulties, dOk), c)
        IN  /\ reply' = Some([command |-> "get_students_match_statistics",
                              difficultyType |-> c,
                              readable |-> sOk /\ dOk,
                              repeated |-> FALSE,
                              result |-> res])
            /\ UNCHANGED <<students, difficulties, firstFind>>
            /\ UNCHANGED <<searchVars, helperVars, componentVars>>

NextEngine ==
    \/ InvokeFindStudents
    \/ InvokeGetStatistics

SpecEngine == InitEngine /\ [][NextEngine]_vars

\* ------------------------------------------------------------------------
\* executeStudentSearch as a process
\* ------------------------------------------------------------------------
Init ==
    /\ students \in SeqUpTo(Student, MaxSearchRows)
    /\ difficulties \in SeqUpTo(DifficultPerson, MaxSearchRows)
    /\ InitCalls
    /\ InitSearch
    /\ InitHelpersIdle
    /\ InitComponent

\* executeStudentSearch is called: both invoke() calls are issued before the
\* function awaits anything.
CallExecuteStudentSearch ==
    \E c \in Categories :
        /\ pc \in {"idle", "returned"}
        /\ pc' = "awaiting"
        /\ difficultyType' = Some(c)
        /\ matchPromise' = Pending
        /\ statsPromise' = Pending
        /\ searchResult' = None
        /\ UNCHANGED <<students, difficulties>>
        /\ UNCHANGED <<engineVars, helperVars, componentVars>>

\* The promise of findStudentsByDifficulty settles as p; when that settles
\* Promise.all, the function runs to its return.
SettleMatch(p) ==
    /\ matchPromise.status = "pending"
    /\ matchPromise' = p
    /\ IF pc = "awaiting" /\ AwaitAll(p, statsPromise) # None
       THEN /\ pc' = "returned"
            /\ searchResult' = AwaitAll(p, statsPromise)
       ELSE UNCHANGED <<pc, searchResult>>
    /\ UNCHANGED <<students, difficulties, difficultyType, statsPromise>>
    /\ UNCHANGED <<engineVars, helperVars, componentVars>>

SettleStats(p) ==
    /\ statsPromise.status = "pending"
    /\ statsPromise' = p
    /\ IF pc = "awaiting" /\ AwaitAll(matchPromise, p) # None
       THEN /\ pc' = "returned"
            /\ searchResult' = AwaitAll(matchPromise, p)
       ELSE UNCHANGED <<pc, searchResult>>
    /\ UNCHANGED <<students, difficulties, difficultyType, matchPromise>>
    /\ UNCHANGED <<engineVars, helperVars, componentVars>>

\* The backend answers find_students_by_difficulty.
MatchQueryReplies ==
    \E sOk \in BOOLEAN, dOk \in BOOLEAN, withMessage \in BOOLEAN :
        SettleMatch(Fulfilled(Delivered(
            find_students_by_difficulty(ReadTable(students, sOk),
                                        ReadTable(difficulties, dOk),
                                        difficultyType[1]), withMessage)))

\* invoke("find_students_by_difficulty") rejects.
MatchQueryRejects == SettleMatch(Rejected(MatchInvokeError))

\* The backend answers get_students_match_statistics.
StatsQueryReplies ==
    \E sOk \in BOOLEAN, dOk \in BOOLEAN, withMessage \in BOOLEAN :
        SettleStats(Fulfilled(Delivered(
            get_students_match_statistics(ReadTable(students, sOk),
                                          ReadTable(difficulties, dOk),
                                          difficultyType[1]), withMessage)))

\* invoke("get_students_match_statistics") rejects.
StatsQueryRejects == SettleStats(Rejected(StatsInvokeError))

Next ==
    \/ CallExecuteStudentSearch
    \/ MatchQueryReplies
    \/ MatchQueryRejects
    \/ StatsQueryReplies
    \/ StatsQueryRejects

Spec == Init /\ [][Next]_vars

\* ------------------------------------------------------------------------
\* maskIdNumber called on its own
\* ------------------------------------------------------------------------
InitMask ==
    /\ students = <<>>
    /\ difficulties = <<>>
    /\ InitCalls
    /\ InitSearch
    /\ InitComponent
    /\ idNumber \in MaskArguments
    /\ masked = None
    /\ InitValidateIdle
    /\ InitFilterIdle
    /\ history = FALSE

CallMaskIdNumber ==
    /\ masked = None
    /\ masked' = Some(maskIdNumber(idNumber))
    /\ UNCHANGED <<students, difficulties, engineVars, searchVars, idNumber,
                   validateVars, filterVars, history, componentVars>>

NextMask == CallMaskIdNumber

SpecMask == InitMask /\ [][NextMask]_vars

\* ------------------------------------------------------------------------
\* validateSearchParameters called on its own
\* ------------------------------------------------------------------------
InitValidate ==
    /\ students = <<>>
    /\ difficulties = <<>>
    /\ InitCalls
    /\ InitSearch
    /\ InitComponent
    /\ InitMaskIdle
    /\ InitFilterIdle
    /\ parameters \in ParameterTexts \X ParameterTexts \X ParameterTexts
    /\ validity = None
    /\ history = FALSE

CallValidateSearchParameters ==
    /\ validity = None
    /\ validity' = Some(validateSearchParameters(parameters[1], parameters[2],
                                                 parameters[3]))
    /\ UNCHANGED <<students, difficulties, engineVars, searchVars, maskVars,
                   parameters, filterVars, history, componentVars>>

NextValidate == CallValidateSearchParameters

SpecValidate == InitValidate /\ [][NextValidate]_vars

\* ------------------------------------------------------------------------
\* searchInMatches called on its own
\* ------------------------------------------------------------------------
InitFilter ==
    /\ students = <<>>
    /\ difficulties = <<>>
    /\ InitCalls
    /\ InitSearch
    /\ InitComponent
    /\ InitMaskIdle
    /\ InitValidateIdle
    /\ searchInput \in [matches : SeqUpTo(ListedMatches, MaxListed),
                         searchTerm : SearchTerms]
    /\ searchOutput = None
    /\ history = FALSE

CallSearchInMatches ==
    /\ searchOutput = None
    /\ searchOutput' = Some(searchInMatches(searchInput.matches,
                                            searchInput.searchTerm))
    /\ UNCHANGED <<students, difficulties, engineVars, searchVars, maskVars,
                   validateVars, searchInput, history, componentVars>>

NextFilter == CallSearchInMatches

SpecFilter == InitFilter /\ [][NextFilter]_vars

\* ------------------------------------------------------------------------
\* StudentMatcher.svelte
\* ------------------------------------------------------------------------
MaxPending == 2       \* backend calls, dialogs and timers pending at once

\* The paths the file dialog can return: one spreadsheet, which the user
\* can pick in either dialog.
Paths == {"/data/table.xlsx"}

\* interface FileInfo, reduced to the path it describes.
FileInfo(path) == [path |-> path]

\* The options get_difficulty_type_options offers, by value: the categories
\* of the difficulty table and one category without rows.
OptionValues == <<"NongCunDiBao", "ChengZhenDiBao">>

\* Messages of the component:
\*   匹配失败:  /  未知错误  /  文件验证失败:  /  学生文件验证成功  /
\*   困难类型文件验证成功  /  获取困难类型选项失败:  /  没有可导出的数据  /
\*   导出失败:
MatchFailedPrefix == "PiPeiShiBai: "

UnknownErrorText == "WeiZhiCuoWu"

ValidationFailedPrefix == "WenJianYanZhengShiBai: "

StudentFileValidated == "XueShengWenJianYanZhengChengGong"

DifficultyFileValidated == "KunNanLeiXingWenJianYanZhengChengGong"

OptionsFailedPrefix == "HuoQuKunNanLeiXingXuanXiangShiBai: "

NoDataToExport == "MeiYouKeDaoChuDeShuJu"

ExportFailedPrefix == "DaoChuShiBai: "

\* 匹配完成！找到 ${n} 个匹配结果
MatchDoneText(n) == "PiPeiWanCheng! ZhaoDao " \o ToString(n) \o " GePiPeiJieGuo"

\* 成功导出 ${n} 条记录到 Excel 文件
ExportDoneText(n) == "ChengGongDaoChu " \o ToString(n) \o " TiaoJiLuDao Excel WenJian"

\* Messages of the backend and of a rejected invoke().
ValidationError == "not a spreadsheet"

ExportError == "cannot write the file"

OptionsError == "options unavailable"

InvokeError == "invoke rejected"

\* A variant of canMatch that does not look at the category.
canMatchWithoutCategory ==
    /\ studentFile # None
    /\ difficultyFile # None

\* let canMatch = $derived(studentFile && difficultyFile && selectedDifficultyType)
canMatch ==
    /\ studentFile # None
    /\ difficultyFile # None
    /\ selectedDifficultyType # ""

\* What is pending in the event loop, counted.
PendingCount == Len(validations) + Len(searches) + Len(exports) + Len(timers)

RemoveAt(s, i) == [j \in 1..(Len(s) - 1) |-> IF j < i THEN s[j] ELSE s[j + 1]]

\* A variant of setError that leaves the success message on display.
SetErrorKeepingSuccess(message) ==
    /\ error' = message
    /\ success' = success
    /\ timers' = Append(timers, "error")

\* setError(message)
SetError(message) ==
    /\ error' = message
    /\ success' = ""
    /\ timers' = Append(timers, "error")

\* setSuccess(message)
SetSuccess(message) ==
    /\ success' = message
    /\ error' = ""
    /\ timers' = Append(timers, "success")

\* What the promise of executeStudentSearch can settle to for a category:
\* the function applied to every way its two queries can settle.
MatchSettlements(c) ==
    {Fulfilled(Delivered(find_students_by_difficulty(ReadTable(students, sOk),
                                                     ReadTable(difficulties, dOk),
                                                     c), withMessage)) :
        sOk \in BOOLEAN, dOk \in BOOLEAN, withMessage \in BOOLEAN}
        \cup {Rejected(MatchInvokeError)}

StatsSettlements(c) ==
    {Fulfilled(Delivered(get_students_match_statistics(ReadTable(students, sOk),
                                                       ReadTable(difficulties, dOk),
                                                       c), withMessage)) :
        sOk \in BOOLEAN, dOk \in BOOLEAN, withMessage \in BOOLEAN}
        \cup {Rejected(StatsInvokeError)}

ExecuteOutcomes(c) ==
    {Fulfilled(AwaitAll(m, s)[1]) :
        m \in MatchSettlements(c), s \in StatsSettlements(c)}

\* The replies of validate_uploaded_file, export_matches_to_excel and
\* get_difficulty_type_options.
ValidationOutcomes(path) ==
    { Fulfilled(Success(FileInfo(path))),
      Fulfilled([success |-> TRUE, data |-> None, error |-> None]),
      Fulfilled(Failure(ValidationError)),
      Rejected(InvokeError) }

ExportOutcomes(path) ==
    { Fulfilled(Success(path)),
      Fulfilled(Failure(ExportError)),
      Rejected(InvokeError) }

OptionsOutcomes ==
    { Fulfilled(Success(OptionValues)),
      Fulfilled(Failure(OptionsError)),
      Rejected(InvokeError) }

\* let itemsPerPage = $state(10); never assigned.
itemsPerPage == 10

\* let totalPages = $derived(Math.ceil(matchResults.length / itemsPerPage))
totalPages == (Len(matchResults) + itemsPerPage - 1) \div itemsPerPage

\* let paginatedResults = $derived.by(...): matchResults.slice(start, end)
paginatedResults ==
    LET start == (currentPage - 1) * itemsPerPage
        end == start + itemsPerPage
    IN  SubSeq(matchResults, Clamp(start, Len(matchResults)) + 1,
               Clamp(end, Len(matchResults)))

\* The identity-number cells of the result table: the table is rendered once
\* a search succeeded ({#if hasSearched && matchStatistics}, matchResults not
\* empty), one row per entry of paginatedResults.
ShownIdNumbers ==
    IF hasSearched /\ matchStatistics # None /\ matchResults # <<>>
    THEN [i \in DOMAIN paginatedResults |->
             maskIdNumber(paginatedResults[i].student.id_number)]
    ELSE <<>>

\* The spreadsheets on disk while the component runs: one student, who has
\* one difficulty record.
InitStudentMatcher ==
    /\ students = <<[name |-> "ZhangSan", id_number |-> "44010X"]>>
    /\ difficulties = <<[id_number |-> "44010X", difficulty_type |-> "NongCunDiBao"]>>
    /\ InitCalls
    /\ InitSearch
    /\ InitHelpersIdle
    /\ InitComponent

\* What no action of the component touches.
outsideVars == <<students, difficulties, engineVars, searchVars, helperVars>>

\* loadDifficultyTypeOptions resumes after its await.
OptionsReply ==
    \E p \in OptionsOutcomes :
        /\ optionsLoading
        /\ optionsLoading' = FALSE
        /\ IF p.status = "fulfilled"
           THEN LET result == p.value[1]
                IN  IF result.success /\ result.data # None
                    THEN /\ difficultyTypeOptions' = result.data[1]
                         /\ UNCHANGED <<error, success, timers>>
                    ELSE /\ SetError(OptionsFailedPrefix
                                        \o OrElse(result.error, UnknownErrorText))
                         /\ UNCHANGED difficultyTypeOptions
           ELSE /\ SetError(OptionsFailedPrefix \o p.reason[1])
                /\ UNCHANGED difficultyTypeOptions
        /\ UNCHANGED <<studentFile, difficultyFile, selectedDifficultyType,
                       matchResults, matchStatistics, isLoading, hasSearched,
                       isExporting, currentPage, validations, searches, exports>>
        /\ UNCHANGED outsideVars

\* The user picks an entry of the select (bind:value); disabled while loading.
SelectDifficultyType ==
    \E c \in {""} \cup Range(difficultyTypeOptions) :
        /\ ~isLoading
        /\ c # selectedDifficultyType
        /\ selectedDifficultyType' = c
        /\ UNCHANGED <<studentFile, difficultyFile, difficultyTypeOptions,
                       matchResults, matchStatistics, isLoading, error, success,
                       hasSearched, isExporting, currentPage>>
        /\ UNCHANGED pendingVars
        /\ UNCHANGED outsideVars

\* selectStudentFile / selectDifficultyFile up to the call of
\* validate_uploaded_file: the button is disabled while loading, the dialog
\* returns a path (a cancelled dialog changes nothing).
SelectFile(fileType) ==
    \E filePath \in Paths :
        /\ ~isLoading
        /\ PendingCount < MaxPending
        /\ validations' = Append(validations,
                                 [fileType |-> fileType, filePath |-> filePath])
        /\ UNCHANGED stateVars
        /\ UNCHANGED <<optionsLoading, searches, exports, timers>>
        /\ UNCHANGED outsideVars

SelectStudentFile == SelectFile("student")

SelectDifficultyFile == SelectFile("difficulty")

\* A variant of validateAndSetFile that clears the file on a failed validation.
FileClearedOnFailure(current, result) ==
    IF result.success /\ result.data # None THEN result.data ELSE None

\* validateAndSetFile: the file of the validated kind after a reply.
FileAfterValidation(current, result) ==
    IF result.success /\ result.data # None THEN result.data ELSE current

\* validateAndSetFile resumes after its await.
ValidationReplies ==
    \E i \in DOMAIN validations :
        \E p \in ValidationOutcomes(validations[i].filePath) :
            /\ validations' = RemoveAt(validations, i)
            /\ IF p.status = "fulfilled"
               THEN LET result == p.value[1]
                    IN  /\ IF validations[i].fileType = "student"
                           THEN /\ studentFile'
                                       = FileAfterValidation(studentFile, result)
                                /\ UNCHANGED difficultyFile
                           ELSE /\ difficultyFile'
                                       = FileAfterValidation(difficultyFile, result)
                                /\ UNCHANGED studentFile
                        /\ IF result.success /\ result.data # None
                           THEN SetSuccess(IF validations[i].fileType = "student"
                                           THEN StudentFileValidated
                                           ELSE DifficultyFileValidated)
                           ELSE SetError(ValidationFailedPrefix
                                            \o OrElse(result.error, UnknownErrorText))
               ELSE /\ SetError(ValidationFailedPrefix \o p.reason[1])
                    /\ UNCHANGED <<studentFile, difficultyFile>>
            /\ UNCHANGED <<selectedDifficultyType, difficultyTypeOptions,
                           matchResults, matchStatistics, isLoading, hasSearched,
                           isExporting, currentPage, optionsLoading, searches,
                           exports>>
            /\ UNCHANGED outsideVars

\* performMatch up to its await.  The button carries the class btn-disabled
\* while loading but not the attribute disabled, so the handler can run
\* again; without canMatch it returns at once.
\* A call of executeStudentSearch awaited by performMatch: its category
\* argument, and two notes on what has happened since it was started:
\* overtaken, a search started after it has completed; preReset, resetAll
\* has run.  The notes are kept when history is TRUE and stay FALSE
\* otherwise; no handler reads them.
NewSearch(category) ==
    [difficultyType |-> category, overtaken |-> FALSE, preReset |-> FALSE]

\* The searches started before call i are noted as overtaken.
Overtaking(list, i) ==
    [j \in DOMAIN list |->
        IF history /\ j < i THEN [list[j] EXCEPT !.overtaken = TRUE]
        ELSE list[j]]

\* The searches in flight are noted as started before the reset.
ResetDuring(list) ==
    [j \in DOMAIN list |-> [list[j] EXCEPT !.preReset = history]]

PerformMatch ==
    /\ canMatch
    /\ PendingCount < MaxPending
    /\ isLoading' = TRUE
    /\ error' = ""
    /\ success' = ""
    /\ searches' = Append(searches, NewSearch(selectedDifficultyType))
    /\ UNCHANGED <<studentFile, difficultyFile, selectedDifficultyType,
                   difficultyTypeOptions, matchResults, matchStatistics,
                   hasSearched, isExporting, currentPage>>
    /\ UNCHANGED <<optionsLoading, validations, exports, timers>>
    /\ UNCHANGED outsideVars

\* A variant of performMatch that clears the results when a search fails.
AfterSearchClearing(p) ==
    IF p.status = "fulfilled" /\ p.value[1].success
    THEN [matchResults |-> p.value[1].matches,
          matchStatistics |-> Some(p.value[1].statistics),
          hasSearched |-> TRUE, currentPage |-> 1]
    ELSE [matchResults |-> <<>>, matchStatistics |-> None,
          hasSearched |-> FALSE, currentPage |-> currentPage]

\* A variant of performMatch without the call of resetPagination.
AfterSearchKeepingPage(p) ==
    IF p.status = "fulfilled" /\ p.value[1].success
    THEN [matchResults |-> p.value[1].matches,
          matchStatistics |-> Some(p.value[1].statistics),
          hasSearched |-> TRUE, currentPage |-> currentPage]
    ELSE [matchResults |-> matchResults, matchStatistics |-> matchStatistics,
          hasSearched |-> FALSE, currentPage |-> currentPage]

\* performMatch after its await: the fields the try and the catch assign
\* (resetPagination sets currentPage to 1).
AfterSearch(p) ==
    IF p.status = "fulfilled" /\ p.value[1].success
    THEN [matchResults |-> p.value[1].matches,
          matchStatistics |-> Some(p.value[1].statistics),
          hasSearched |-> TRUE, currentPage |-> 1]
    ELSE [matchResults |-> matchResults, matchStatistics |-> matchStatistics,
          hasSearched |-> FALSE, currentPage |-> currentPage]

\* A variant of performMatch that calls executeStudentSearch again when the
\* search failed.
SearchesRetried(i, p) ==
    IF p.status = "fulfilled" /\ p.value[1].success
    THEN RemoveAt(searches, i)
    ELSE searches

\* The searches still awaited once call i has resumed: performMatch has one
\* await and no loop.
SearchesAfterReturn(i, p) == RemoveAt(Overtaking(searches, i), i)

\* A variant of performMatch without the finally block: the flag is lowered
\* on success only.
LoadingKeptOnFailure(p) == ~(p.status = "fulfilled" /\ p.value[1].success)

\* finally { isLoading = false }
LoadingAfterSearch(p) == FALSE

\* performMatch resumes after its await and runs to its end.
SearchReturns ==
    \E i \in DOMAIN searches :
        \E p \in ExecuteOutcomes(searches[i].difficultyType) :
            /\ searches' = SearchesAfterReturn(i, p)
            /\ matchResults' = AfterSearch(p).matchResults
            /\ matchStatistics' = AfterSearch(p).matchStatistics
            /\ hasSearched' = AfterSearch(p).hasSearched
            /\ currentPage' = AfterSearch(p).currentPage
            /\ IF p.status = "fulfilled"
               THEN LET result == p.value[1]
                    IN  IF result.success
                        THEN SetSuccess(MatchDoneText(Len(result.matches)))
                        ELSE SetError(MatchFailedPrefix
                                         \o OrElse(result.error, UnknownErrorText))
               ELSE SetError(MatchFailedPrefix \o p.reason[1])
            /\ isLoading' = LoadingAfterSearch(p)
            /\ UNCHANGED <<studentFile, difficultyFile, selectedDifficultyType,
                           difficultyTypeOptions, isExporting, optionsLoading,
                           validations, exports>>
            /\ UNCHANGED outsideVars

\* resetAll: the button is never disabled.  The calls in flight are left to
\* run; they are noted as started before the reset.
ResetAll ==
    /\ studentFile' = None
    /\ difficultyFile' = None
    /\ selectedDifficultyType' = ""
    /\ matchResults' = <<>>
    /\ matchStatistics' = None
    /\ hasSearched' = FALSE
    /\ error' = ""
    /\ success' = ""
    /\ isExporting' = FALSE
    /\ currentPage' = 1
    /\ searches' = ResetDuring(searches)
    /\ UNCHANGED <<difficultyTypeOptions, isLoading>>
    /\ UNCHANGED <<optionsLoading, validations, exports, timers>>
    /\ UNCHANGED outsideVars

\* A variant of exportToExcel that passes the identity numbers as displayed.
ExportArgumentAsShown(results) ==
    [i \in DOMAIN results |->
        [results[i] EXCEPT !.student.id_number = maskIdNumber(@)]]

\* The first argument of exportMatchesToExcel.
ExportArgument(results) == results

\* What the save dialog returns when a place is chosen: the path with or
\* without the extension.
SavePaths == {"/out/result.xlsx", "/out/result"}

\* String.prototype.endsWith
EndsWith(text, suffix) ==
    /\ Len(text) >= Len(suffix)
    /\ Substring(text, Len(text) - Len(suffix), Len(text)) = suffix

\* The second argument of exportMatchesToExcel.
OutputPath(savePath) ==
    IF EndsWith(savePath, ".xlsx") THEN savePath ELSE savePath \o ".xlsx"

\* exportToExcel up to its first await.  The button exists once a search
\* succeeded and is disabled while exporting.
ExportToExcel ==
    /\ hasSearched
    /\ ~isExporting
    /\ PendingCount < MaxPending
    /\ IF matchResults = <<>>
       THEN /\ SetError(NoDataToExport)
            /\ UNCHANGED <<isExporting, exports>>
       ELSE /\ isExporting' = TRUE
            /\ exports' = Append(exports, [phase |-> "dialog", matches |-> <<>>,
                                           outputPath |-> ""])
            /\ UNCHANGED <<error, success, timers>>
    /\ UNCHANGED <<studentFile, difficultyFile, selectedDifficultyType,
                   difficultyTypeOptions, matchResults, matchStatistics,
                   isLoading, hasSearched, currentPage, optionsLoading,
                   validations, searches>>
    /\ UNCHANGED outsideVars

\* saveFileDialog returns: null when cancelled or failed, else a path, with
\* which exportMatchesToExcel is invoked on the results of that moment.
SaveDialogReturns ==
    \E i \in DOMAIN exports :
        /\ exports[i].phase = "dialog"
        /\ \/ /\ isExporting' = FALSE
              /\ exports' = RemoveAt(exports, i)
           \/ \E savePath \in SavePaths :
                  /\ exports' = [exports EXCEPT ![i] =
                                    [phase |-> "invoked",
                                     matches |-> ExportArgument(matchResults),
                                     outputPath |-> OutputPath(savePath)]]
                  /\ UNCHANGED isExporting
        /\ UNCHANGED <<studentFile, difficultyFile, selectedDifficultyType,
                       difficultyTypeOptions, matchResults, matchStatistics,
                       isLoading, error, success, hasSearched, currentPage,
                       optionsLoading, validations, searches, timers>>
        /\ UNCHANGED outsideVars

\* exportToExcel resumes after exportMatchesToExcel and runs to its end.
ExportReplies ==
    \E i \in DOMAIN exports :
        \E p \in ExportOutcomes(exports[i].outputPath) :
            /\ exports[i].phase = "invoked"
            /\ exports' = RemoveAt(exports, i)
            /\ IF p.status = "fulfilled"
               THEN LET result == p.value[1]
                    IN  IF result.success
                        THEN SetSuccess(ExportDoneText(Len(matchResults)))
                        ELSE SetError(ExportFailedPrefix
                                         \o OrElse(result.error, UnknownErrorText))
               ELSE SetError(ExportFailedPrefix \o p.reason[1])
            /\ isExporting' = FALSE
            /\ UNCHANGED <<studentFile, difficultyFile, selectedDifficultyType,
                           difficultyTypeOptions, matchResults, matchStatistics,
                           isLoading, hasSearched, currentPage, optionsLoading,
                           validations, searches>>
            /\ UNCHANGED outsideVars

\* The timer of setError (5000 ms) fires: every timer set before it has
\* fired already.
ErrorTimerFires ==
    /\ timers # <<>>
    /\ Head(timers) = "error"
    /\ error' = ""
    /\ timers' = Tail(timers)
    /\ UNCHANGED <<studentFile, difficultyFile, selectedDifficultyType,
                   difficultyTypeOptions, matchResults, matchStatistics,
                   isLoading, success, hasSearched, isExporting, currentPage>>
    /\ UNCHANGED <<optionsLoading, validations, searches, exports>>
    /\ UNCHANGED outsideVars

\* The timer of setSuccess (3000 ms) fires: it can overtake timers of
\* setError, not an earlier timer of setSuccess.
SuccessTimerFires ==
    \E i \in DOMAIN timers :
        /\ timers[i] = "success"
        /\ \A j \in 1..(i - 1) : timers[j] = "error"
        /\ success' = ""
        /\ timers' = RemoveAt(timers, i)
        /\ UNCHANGED <<studentFile, difficultyFile, selectedDifficultyType,
                       difficultyTypeOptions, matchResults, matchStatistics,
                       isLoading, error, hasSearched, isExporting, currentPage>>
        /\ UNCHANGED <<optionsLoading, validations, searches, exports>>
        /\ UNCHANGED outsideVars

NextStudentMatcher ==
    \/ OptionsReply
    \/ SelectDifficultyType
    \/ SelectStudentFile
    \/ SelectDifficultyFile
    \/ ValidationReplies
    \/ PerformMatch
    \/ SearchReturns
    \/ ResetAll
    \/ ExportToExcel
    \/ SaveDialogReturns
    \/ ExportReplies
    \/ ErrorTimerFires
    \/ SuccessTimerFires

SpecStudentMatcher == InitStudentMatcher /\ [][NextStudentMatcher]_vars

\* The component with the notes on the searches in flight kept.
InitStaleResponses ==
    /\ students = <<[name |-> "ZhangSan", id_number |-> "44010X"]>>
    /\ difficulties = <<[id_number |-> "44010X", difficulty_type |-> "NongCunDiBao"]>>
    /\ InitCalls
    /\ InitSearch
    /\ InitMaskIdle
    /\ InitValidateIdle
    /\ InitFilterIdle
    /\ history = TRUE
    /\ InitComponent

SpecStaleResponses == InitStaleResponses /\ [][NextStudentMatcher]_vars

\* ------------------------------------------------------------------------
\* StudentMatcher.svelte with results of more than one page
\* ------------------------------------------------------------------------

\* A student table of one row more than a page holds.
PageStudents ==
    [k \in 1..(itemsPerPage + 1) |->
        [name |-> "XueSheng" \o ToString(k),
         id_number |-> "4401" \o ToString(10 + k)]]

\* A difficulty record of every student in one category, and one record of
\* the first student in another.
PageDifficulties ==
    [k \in 1..(itemsPerPage + 2) |->
        IF k <= itemsPerPage + 1
        THEN [id_number |-> PageStudents[k].id_number,
              difficulty_type |-> "NongCunDiBao"]
        ELSE [id_number |-> PageStudents[1].id_number,
              difficulty_type |-> "ChengZhenDiBao"]]

InitPagination ==
    /\ students = PageStudents
    /\ difficulties = PageDifficulties
    /\ InitCalls
    /\ InitSearch
    /\ InitHelpersIdle
    /\ InitComponent

\* The pagination controls are rendered below the result table when there
\* is more than one page ({#if totalPages > 1}).
PaginationShown ==
    /\ hasSearched
    /\ matchStatistics # None
    /\ matchResults # <<>>
    /\ totalPages > 1

\* goToPage(page), from one of the page buttons 1..totalPages.
GoToPage ==
    \E page \in 1..totalPages :
        /\ PaginationShown
        /\ page >= 1 /\ page <= totalPages
        /\ currentPage' = page
        /\ UNCHANGED <<studentFile, difficultyFile, selectedDifficultyType,
                       difficultyTypeOptions, matchResults, matchStatistics,
                       isLoading, error, success, hasSearched, isExporting>>
        /\ UNCHANGED pendingVars
        /\ UNCHANGED outsideVars

\* nextPage: the button is disabled on the last page.
NextPage ==
    /\ PaginationShown
    /\ currentPage # totalPages
    /\ currentPage < totalPages
    /\ currentPage' = currentPage + 1
    /\ UNCHANGED <<studentFile, difficultyFile, selectedDifficultyType,
                   difficultyTypeOptions, matchResults, matchStatistics,
                   isLoading, error, success, hasSearched, isExporting>>
    /\ UNCHANGED pendingVars
    /\ UNCHANGED outsideVars

\* prevPage: the button is disabled on the first page.
PrevPage ==
    /\ PaginationShown
    /\ currentPage # 1
    /\ currentPage > 1
    /\ currentPage' = currentPage - 1
    /\ UNCHANGED <<studentFile, difficultyFile, selectedDifficultyType,
                   difficultyTypeOptions, matchResults, matchStatistics,
                   isLoading, error, success, hasSearched, isExporting>>
    /\ UNCHANGED pendingVars
    /\ UNCHANGED outsideVars

NextPagination ==
    \/ NextStudentMatcher
    \/ GoToPage
    \/ NextPage
    \/ PrevPage

SpecPagination == InitPagination /\ [][NextPagination]_vars

\* The component with a backend and dialogs that always answer: every call
\* awaited is eventually settled, so the handler awaiting it resumes.
SpecStudentMatcherFair ==
    /\ SpecStudentMatcher
    /\ WF_vars(SearchReturns)
    /\ WF_vars(SaveDialogReturns)
    /\ WF_vars(ExportReplies)

\* ------------------------------------------------------------------------
\* Properties of the matching engine (SpecEngine)
\* ------------------------------------------------------------------------

\* The last direct call was find_students_by_difficulty and it succeeded.
FindSucceeded ==
    /\ reply # None
    /\ reply[1].command = "find_students_by_difficulty"
    /\ reply[1].result.success

\* The last direct call was get_students_match_statistics and it succeeded.
StatsSucceeded ==
    /\ reply # None
    /\ reply[1].command = "get_students_match_statistics"
    /\ reply[1].result.success

\* The data of the last reply (a match list or a statistics record).
ReplyData == reply[1].result.data[1]

\* The category the last call asked for.
ReplyCategory == reply[1].difficultyType

IdsOf(table) == {table[i].id_number : i \in DOMAIN table}

\* The last row of the student table that carries the identity number.
LastStudentWith(id_number) ==
    students[CHOOSE j \in DOMAIN students :
                /\ students[j].id_number = id_number
                /\ \A k \in DOMAIN students :
                       students[k].id_number = id_number => k <= j]

RECURSIVE SumOver(_, _)
SumOver(counts, keys) ==
    IF keys = {}
    THEN 0
    ELSE LET k == CHOOSE x \in keys : TRUE
         IN  counts[k] + SumOver(counts, keys \ {k})

\* C1: every record returned by find_matches(S, D, C) has difficulty_type C,
\* and its identity number (the student's and the record's) occurs both in
\* the student table and in the difficulty table.
C1_MatchesInCategoryAndInBothTables ==
    FindSucceeded =>
        \A i \in DOMAIN ReplyData :
            /\ ReplyData[i].difficult_info.difficulty_type = ReplyCategory
            /\ ReplyData[i].difficult_info.id_number
                   \in IdsOf(students) \cap IdsOf(difficulties)
            /\ ReplyData[i].student.id_number
                   \in IdsOf(students) \cap IdsOf(difficulties)

\* A find returned a match although the table also holds a record of
\* another category with a student.
C1_Witness ==
    /\ FindSucceeded
    /\ Len(ReplyData) >= 1
    /\ \E j \in DOMAIN difficulties :
           /\ difficulties[j].difficulty_type # ReplyCategory
           /\ difficulties[j].id_number \in IdsOf(students)

\* C2: a MatchResult pairing student s with record d is in the result of
\* find_matches(S, D, C) if and only if s is in S, d is in D, their identity
\* numbers are the identical string and d.difficulty_type = C.
C2_PairedIffSameIdentityAndCategory ==
    FindSucceeded =>
        \A s \in Student, d \in DifficultPerson :
            ([student |-> s, difficult_info |-> d] \in Range(ReplyData))
            <=> /\ s \in Range(students)
                /\ d \in Range(difficulties)
                /\ s.id_number = d.id_number
                /\ d.difficulty_type = ReplyCategory

\* C3: total_matches of compute_statistics(S, D, C) is the number of
\* MatchResults find_matches(S, D, C) returned for the same tables and
\* category.
C3_TotalMatchesIsLengthOfMatchList ==
    (StatsSucceeded /\ firstFind[ReplyCategory] # None) =>
        ReplyData.total_matches = Len(firstFind[ReplyCategory][1])

\* Statistics and a match list of the same category are both there; the
\* category has a matched record and a record without a student.
C3_Witness ==
    /\ StatsSucceeded
    /\ firstFind[ReplyCategory] # None
    /\ ReplyData.total_matches = 1
    /\ \E j \in DOMAIN difficulties :
           /\ difficulties[j].difficulty_type = ReplyCategory
           /\ difficulties[j].id_number \notin IdsOf(students)

\* C4: total_students of compute_statistics(S, D, C) is the number of rows
\* of the student table, whatever C is.
C4_TotalStudentsIsRowCount ==
    StatsSucceeded => ReplyData.total_students = Len(students)

\* Statistics for a category outside the enumeration, over a student table
\* of two rows that share one identity number.
C4_Witness ==
    /\ StatsSucceeded
    /\ ReplyCategory \notin DifficultyType
    /\ ReplyData.total_matches = 0
    /\ Len(students) = 2
    /\ students[1].id_number = students[2].id_number
    /\ ReplyData.total_students = 2

\* C5: for a category outside the enumeration, find_students_by_difficulty
\* over two readable tables succeeds with an empty match list; the category
\* is never the cause of an error.
C5_UnknownCategoryGivesEmptySuccess ==
    (/\ reply # None
     /\ reply[1].command = "find_students_by_difficulty"
     /\ ReplyCategory \notin DifficultyType
     /\ reply[1].readable)
        => /\ reply[1].result.success
           /\ reply[1].result.error = None
           /\ reply[1].result.data = Some(<<>>)

\* A find for an unknown category over tables that do share an identity
\* number.
C5_Witness ==
    /\ FindSucceeded
    /\ ReplyCategory = UnknownCategory
    /\ ReplyData = <<>>
    /\ IdsOf(students) \cap IdsOf(difficulties) # {}

\* C6: difficulty_type_counts has a key only for a category that occurs among
\* the matches, every count is at least 1, the counts sum to total_matches
\* and the map is empty when nothing matched.  The same holds of the counts
\* generateMatchSummary derives from a returned match list.
C6_CountsOnlyForCategoriesPresent ==
    /\ StatsSucceeded =>
          LET counts == ReplyData.difficulty_type_counts
              matches == find_matches(students, difficulties, ReplyCategory)
          IN  /\ DOMAIN counts =
                     {matches[i].difficult_info.difficulty_type :
                          i \in DOMAIN matches}
              /\ \A t \in DOMAIN counts : counts[t] >= 1
              /\ SumOver(counts, DOMAIN counts) = ReplyData.total_matches
              /\ ReplyData.total_matches = 0 => counts = <<>>
    /\ FindSucceeded =>
          LET summary == generateMatchSummary(ReplyData)
              counts == summary.difficultyTypeCounts
          IN  /\ DOMAIN counts =
                     {ReplyData[i].difficult_info.difficulty_type :
                          i \in DOMAIN ReplyData}
              /\ \A t \in DOMAIN counts : counts[t] >= 1
              /\ SumOver(counts, DOMAIN counts) = summary.totalMatches
              /\ summary.totalMatches = 0 => counts = <<>>

\* Statistics with two matches of one category while the table type of the
\* other category is absent from the counts.
C6_Witness ==
    /\ StatsSucceeded
    /\ ReplyData.total_matches = 2
    /\ DOMAIN ReplyData.difficulty_type_counts = {ReplyCategory}
    /\ ReplyData.difficulty_type_counts[ReplyCategory] = 2

\* No match at all: the count map is empty.
C6_WitnessEmpty ==
    /\ StatsSucceeded
    /\ ReplyCategory \in DifficultyType
    /\ Len(difficulties) >= 1
    /\ ReplyData.total_matches = 0
    /\ ReplyData.difficulty_type_counts = <<>>

\* C7: with several students of one identity number the lookup keeps the one
\* parsed last, and a record of that identity number and the requested
\* category is paired with that last student only.
C7_LastStudentWins ==
    /\ \A id \in IdsOf(students) :
           BuildLookup(students)[KeyOf(id)] = LastStudentWith(id)
    /\ FindSucceeded =>
           \A i \in DOMAIN ReplyData :
               ReplyData[i].student
                   = LastStudentWith(ReplyData[i].difficult_info.id_number)

\* Two students of different names share an identity number and a record
\* of the requested category was paired with the second.
C7_Witness ==
    /\ FindSucceeded
    /\ Len(students) = 2
    /\ students[1].id_number = students[2].id_number
    /\ students[1].name # students[2].name
    /\ Len(ReplyData) >= 1
    /\ ReplyData[1].student = students[2]

\* C8: find_matches emits exactly one MatchResult for each difficulty record
\* of the requested category whose identity number is a key of the student
\* lookup and none for any other record; over readable tables the call
\* succeeds whether or not a record lacks a student.
C8_OneMatchPerRecordWithStudent ==
    (/\ reply # None
     /\ reply[1].command = "find_students_by_difficulty"
     /\ reply[1].readable)
        => /\ reply[1].result.success
           /\ \A d \in DifficultPerson :
                  Cardinality({i \in DOMAIN ReplyData :
                                   ReplyData[i].difficult_info = d})
                  = IF /\ d.difficulty_type = ReplyCategory
                       /\ d.id_number \in IdsOf(students)
                    THEN Cardinality({j \in DOMAIN difficulties :
                                          difficulties[j] = d})
                    ELSE 0

\* A record of the requested category without a student next to one with a
\* student: the call succeeded with the one match.
C8_Witness ==
    /\ FindSucceeded
    /\ Len(ReplyData) = 1
    /\ \E j \in DOMAIN difficulties :
           /\ difficulties[j].difficulty_type = ReplyCategory
           /\ difficulties[j].id_number \notin IdsOf(students)

ReportsFailure(p) == p.status = "fulfilled" /\ ~p.value[1].success

ReportsSuccess(p) == p.status = "fulfilled" /\ p.value[1].success

\* The texts under which executeStudentSearch reports the failure of a
\* query: the query's own message or its fixed default text when it reported
\* failure, the rejection reason after the fixed prefix when it rejected.
FailureTexts(p, default) ==
    IF ReportsFailure(p) THEN {OrElse(p.value[1].error, default)}
    ELSE IF p.status = "rejected" THEN {CatchPrefix \o p.reason[1]}
    ELSE {}

\* C10: executeStudentSearch returns success = true only if both queries
\* reported success; whenever a query reports failure the result has
\* success = false and its error is the message of a query that failed (that
\* query's default text when it carries none).
C10_SuccessOnlyIfBothSucceeded ==
    searchResult # None =>
        /\ searchResult[1].success =>
               /\ ReportsSuccess(matchPromise)
               /\ ReportsSuccess(statsPromise)
               /\ searchResult[1].error = None
        /\ (ReportsFailure(matchPromise) \/ ReportsFailure(statsPromise)) =>
               /\ ~searchResult[1].success
               /\ searchResult[1].error # None
               /\ searchResult[1].error[1]
                      \in FailureTexts(matchPromise, MatchDefaultError)
                            \cup FailureTexts(statsPromise, StatsDefaultError)
        /\ (ReportsFailure(matchPromise) /\ statsPromise.status = "fulfilled") =>
               searchResult[1].error
                   = Some(OrElse(matchPromise.value[1].error, MatchDefaultError))
        /\ (ReportsSuccess(matchPromise) /\ ReportsFailure(statsPromise)) =>
               searchResult[1].error
                   = Some(OrElse(statsPromise.value[1].error, StatsDefaultError))

\* The match query succeeded and the statistics query reported failure
\* without a message: the result is failed with the default text.
C10_Witness ==
    /\ searchResult # None
    /\ ReportsSuccess(matchPromise)
    /\ ReportsFailure(statsPromise)
    /\ statsPromise.value[1].error = None
    /\ searchResult[1].success = FALSE
    /\ searchResult[1].error = Some(StatsDefaultError)

\* C11: executeStudentSearch never rejects: once Promise.all settles the
\* function has returned a result, and if either invocation rejected the
\* result has success = false, an error message, an empty match list and
\* zeroed statistics.
C11_RejectionGivesFailedEmptyResult ==
    /\ (matchPromise.status = "rejected" \/ statsPromise.status = "rejected") =>
           /\ pc = "returned"
           /\ searchResult # None
           /\ searchResult[1].success = FALSE
           /\ searchResult[1].error # None
           /\ searchResult[1].error[1] # ""
           /\ searchResult[1].matches = <<>>
           /\ searchResult[1].statistics = ZeroStatistics
    /\ (matchPromise.status = "fulfilled" /\ statsPromise.status = "fulfilled") =>
           /\ pc = "returned"
           /\ searchResult # None

\* The match query succeeded with a non-empty list and the statistics
\* invocation rejected: the result is failed and empty.
C11_Witness ==
    /\ ReportsSuccess(matchPromise)
    /\ matchPromise.value[1].data[1] # <<>>
    /\ statsPromise.status = "rejected"
    /\ searchResult # None
    /\ searchResult[1].success = FALSE
    /\ searchResult[1].matches = <<>>
    /\ searchResult[1].error = Some(CatchPrefix \o StatsInvokeError)

\* C12 as stated: both queries are started by the call, and a result is
\* returned only after both queries have completed, also when one rejects.
C12_ReturnsOnlyAfterBothCompleted ==
    /\ pc # "idle" =>
           /\ matchPromise.status # "none"
           /\ statsPromise.status # "none"
    /\ searchResult # None =>
           /\ matchPromise.status \in {"fulfilled", "rejected"}
           /\ statsPromise.status \in {"fulfilled", "rejected"}

\* C12 amended: both queries are started by the call before anything is
\* awaited; the function has returned exactly when both queries were
\* answered or one invocation rejected, so a reported failure is waited out
\* together with the other query, and a rejection is not.
C12_ReturnsAfterBothRepliesOrFirstRejection ==
    /\ pc # "idle" =>
           /\ matchPromise.status # "none"
           /\ statsPromise.status # "none"
    /\ pc = "awaiting" =>
           /\ searchResult = None
           /\ matchPromise.status \in {"pending", "fulfilled"}
           /\ statsPromise.status \in {"pending", "fulfilled"}
           /\ "pending" \in {matchPromise.status, statsPromise.status}
    /\ pc = "returned" =>
           /\ searchResult # None
           /\ \/ matchPromise.status = "rejected"
              \/ statsPromise.status = "rejected"
              \/ /\ matchPromise.status = "fulfilled"
                 /\ statsPromise.status = "fulfilled"

\* The match query reported failure first and the function is still waiting
\* for the statistics query.
C12_WitnessWaiting ==
    /\ pc = "awaiting"
    /\ ReportsFailure(matchPromise)
    /\ statsPromise.status = "pending"
    /\ searchResult = None

\* The function returned at a rejection while the other query is pending.
C12_Witness ==
    /\ pc = "returned"
    /\ statsPromise.status = "rejected"
    /\ matchPromise.status = "pending"

\* C13 as stated: when exactly one of the two queries fails, the failed
\* result carries the data of the query that succeeded.
C13_FailedResultCarriesOtherData ==
    (/\ searchResult # None
     /\ matchPromise.status = "fulfilled"
     /\ statsPromise.status = "fulfilled") =>
        /\ (ReportsSuccess(matchPromise) /\ ReportsFailure(statsPromise)) =>
               searchResult[1].matches = matchPromise.value[1].data[1]
        /\ (ReportsFailure(matchPromise) /\ ReportsSuccess(statsPromise)) =>
               searchResult[1].statistics = statsPromise.value[1].data[1]

\* C13 amended: a failed result carries the match list exactly when the match
\* query succeeded and the statistics query reported failure; its statistics
\* are zeroed in every failure, and its match list is empty when the match
\* query failed or either invocation rejected.
C13_OnlyMatchListSurvivesFailure ==
    (searchResult # None /\ ~searchResult[1].success) =>
        /\ searchResult[1].statistics = ZeroStatistics
        /\ searchResult[1].matches =
               IF /\ ReportsSuccess(matchPromise)
                  /\ ReportsFailure(statsPromise)
               THEN matchPromise.value[1].data[1]
               ELSE <<>>

\* Only the statistics query failed and the match list is not empty.
C13_Witness ==
    /\ searchResult # None
    /\ ReportsSuccess(matchPromise)
    /\ ReportsFailure(statsPromise)
    /\ searchResult[1].success = FALSE
    /\ searchResult[1].matches # <<>>
    /\ searchResult[1].matches = matchPromise.value[1].data[1]

\* Only the match query failed while the statistics query counted a student.
C13_WitnessMatchFailed ==
    /\ searchResult # None
    /\ ReportsFailure(matchPromise)
    /\ ReportsSuccess(statsPromise)
    /\ statsPromise.value[1].data[1] # ZeroStatistics
    /\ searchResult[1].statistics = ZeroStatistics

\* ------------------------------------------------------------------------
\* Properties of maskIdNumber (SpecMask)
\* ------------------------------------------------------------------------

\* C16: maskIdNumber turns an identity number of at least six characters
\* into its first three characters, "****" and its last three characters
\* ("123456789012345678" gives "123****678"), and any identity number of
\* fewer than six characters into "****".
C16_MaskKeepsFirstAndLastThree ==
    masked # None =>
        /\ Len(idNumber) >= 6 =>
               /\ Len(masked[1]) = 10
               /\ \A i \in 1..3 :
                      /\ SubSeq(masked[1], i, i) = SubSeq(idNumber, i, i)
                      /\ SubSeq(masked[1], 7 + i, 7 + i)
                             = SubSeq(idNumber, Len(idNumber) - 3 + i,
                                      Len(idNumber) - 3 + i)
               /\ \A i \in 4..7 : SubSeq(masked[1], i, i) = "*"
        /\ Len(idNumber) < 6 => masked[1] = "****"
        /\ idNumber = LongIdNumber => masked[1] = "123****678"

\* An identity number of exactly six characters has been masked.
C16_Witness ==
    /\ masked # None
    /\ Len(idNumber) = 6
    /\ idNumber = "44X4XX"
    /\ masked[1] = "44X****4XX"

\* The 18-character identity number has been masked.
C16_WitnessLong ==
    /\ idNumber = LongIdNumber
    /\ masked = Some("123****678")

\* A five-character identity number has been masked to the placeholder.
C16_WitnessShort ==
    /\ Len(idNumber) = 5
    /\ masked = Some("****")

\* ------------------------------------------------------------------------
\* Properties of StudentMatcher.svelte (SpecStudentMatcher)
\* ------------------------------------------------------------------------

\* The text starts with the prefix.
StartsWith(text, prefix) ==
    /\ Len(text) >= Len(prefix)
    /\ SubSeq(text, 1, Len(prefix)) = prefix

\* The step starts a search: a call of executeStudentSearch is added or the
\* loading flag is raised.
SearchStarts ==
    \/ Len(searches') > Len(searches)
    \/ isLoading' /\ ~isLoading

\* C14: performMatch issues a backend call and changes state only if a
\* student file, a difficulty file and a non-empty category are all
\* selected: every step that starts a search starts from such a state and
\* passes exactly that category, and with a selection missing no step raises
\* the loading flag or adds a call.
C14_SearchStartsOnlyWithFullSelection ==
    [][ SearchStarts =>
            /\ studentFile # None
            /\ difficultyFile # None
            /\ selectedDifficultyType # ""
            /\ searches' = Append(searches,
                                  NewSearch(selectedDifficultyType))
      ]_vars

\* Both files are selected, no category is, and nothing is being searched.
C14_WitnessRefused ==
    /\ studentFile # None
    /\ difficultyFile # None
    /\ selectedDifficultyType = ""
    /\ searches = <<>>
    /\ ~isLoading

\* A search was started with all three selected.
C14_Witness ==
    /\ searches # <<>>
    /\ isLoading
    /\ canMatch

\* The step ends a search with the outcome p of the call awaited at i.
SearchEndsWith(i, p) ==
    /\ searches' = RemoveAt(Overtaking(searches, i), i)
    /\ ~isLoading'
    /\ IF p.value[1].success
       THEN /\ matchResults' = p.value[1].matches
            /\ matchStatistics' = Some(p.value[1].statistics)
            /\ hasSearched'
            /\ error' = ""
            /\ success' # ""
       ELSE /\ matchResults' = matchResults
            /\ matchStatistics' = matchStatistics
            /\ ~hasSearched'
            /\ success' = ""
            /\ StartsWith(error', MatchFailedPrefix)
            /\ error' # MatchFailedPrefix

\* C15: when a search reports failure, performMatch keeps matchResults and
\* matchStatistics as they were, sets hasSearched to false and shows an
\* error; hasSearched becomes true only in a step that ends a search whose
\* result has success = true.
C15_FailedSearchKeepsResults ==
    [][ /\ Len(searches') < Len(searches) =>
               \E i \in DOMAIN searches :
                   \E p \in ExecuteOutcomes(searches[i].difficultyType) :
                       SearchEndsWith(i, p)
        /\ (hasSearched' /\ ~hasSearched) =>
               \E i \in DOMAIN searches :
                   \E p \in ExecuteOutcomes(searches[i].difficultyType) :
                       /\ p.value[1].success
                       /\ SearchEndsWith(i, p)
      ]_vars

\* A search failed after an earlier one had found a match: the match and
\* its statistics are still stored, hasSearched is false, the error shows.
C15_Witness ==
    /\ matchResults # <<>>
    /\ matchStatistics # None
    /\ ~hasSearched
    /\ ~isLoading
    /\ StartsWith(error, MatchFailedPrefix)

\* The match lists the backend returns for the tables on disk.
ReturnedMatchLists ==
    {find_matches(students, difficulties, c) : c \in Range(OptionValues)}

\* C17: masking is presentation only.  The table shows the masked form of
\* every stored identity number, the identity numbers stored in
\* matchResults stay those the backend returned, and exportMatchesToExcel
\* receives the stored entries with their identity numbers unmasked.
C17_MaskingIsPresentationOnly ==
    /\ matchResults \in ReturnedMatchLists \cup {<<>>}
    /\ \A i \in DOMAIN matchResults :
           matchResults[i].student.id_number \in IdsOf(students)
    /\ \A i \in DOMAIN ShownIdNumbers :
           /\ ShownIdNumbers[i] = "440****10X"
           /\ ShownIdNumbers[i] # matchResults[i].student.id_number
    /\ \A k \in DOMAIN exports :
           exports[k].phase = "invoked" =>
               /\ exports[k].matches \in ReturnedMatchLists
               /\ \A i \in DOMAIN exports[k].matches :
                      exports[k].matches[i].student.id_number \in IdsOf(students)

\* The table shows a masked identity number while an export of the stored,
\* unmasked entry is under way.
C17_Witness ==
    /\ ShownIdNumbers = <<"440****10X">>
    /\ matchResults[1].student.id_number = "44010X"
    /\ \E k \in DOMAIN exports :
           /\ exports[k].phase = "invoked"
           /\ exports[k].matches = matchResults

\* The step shows the error of a failed search / of a failed export.
ShowsSearchFailure ==
    /\ Len(timers') > Len(timers)
    /\ StartsWith(error', MatchFailedPrefix)

ShowsExportFailure ==
    /\ Len(timers') > Len(timers)
    /\ StartsWith(error', ExportFailedPrefix)

\* The calls of export_matches_to_excel under way.
InvokedExports(list) == {k \in DOMAIN list : list[k].phase = "invoked"}

\* C18: each backend call is a single attempt.  A step in which performMatch
\* handles a failed search ends that call of executeStudentSearch and starts
\* no other, a step in which exportToExcel handles a failed export ends that
\* call of export_matches_to_excel and starts no other; a call of
\* executeStudentSearch is added only by a step of performMatch from its
\* first line, one call per step, and an export is invoked only from its
\* own dialog.
C18_FailedCallIsNotIssuedAgain ==
    [][ /\ ShowsSearchFailure =>
               /\ Len(searches') = Len(searches) - 1
               /\ exports' = exports
        /\ ShowsExportFailure =>
               /\ Len(exports') = Len(exports) - 1
               /\ Cardinality(InvokedExports(exports'))
                      = Cardinality(InvokedExports(exports)) - 1
               /\ searches' = searches
        /\ Len(searches') > Len(searches) =>
               /\ Len(searches') = Len(searches) + 1
               /\ isLoading'
               /\ error' = ""
               /\ timers' = timers
        /\ Cardinality(InvokedExports(exports'))
               > Cardinality(InvokedExports(exports)) =>
               /\ Len(exports') = Len(exports)
               /\ timers' = timers
               /\ error' = error
      ]_vars

\* A search has failed, its error shows, and no call is under way.
C18_Witness ==
    /\ StartsWith(error, MatchFailedPrefix)
    /\ searches = <<>>
    /\ exports = <<>>
    /\ ~isLoading
    /\ canMatch

\* An export has failed and no call is under way.
C18_WitnessExport ==
    /\ StartsWith(error, ExportFailedPrefix)
    /\ exports = <<>>
    /\ searches = <<>>
    /\ ~isExporting

\* C18, inside executeStudentSearch (Spec): the call puts both queries to
\* pending, a query becomes pending in no other step, and a settled query
\* stays as it settled until the next call.
C18_QueriesIssuedByTheCallOnly ==
    [][ /\ (pc' = "awaiting" /\ pc # "awaiting") =>
               /\ matchPromise' = Pending
               /\ statsPromise' = Pending
        /\ (pc' # "awaiting" \/ pc = "awaiting") =>
               /\ matchPromise.status \in {"fulfilled", "rejected"} =>
                      matchPromise' = matchPromise
               /\ statsPromise.status \in {"fulfilled", "rejected"} =>
                      statsPromise' = statsPromise
               /\ matchPromise' = Pending => matchPromise = Pending
               /\ statsPromise' = Pending => statsPromise = Pending
      ]_vars

\* C19 (SpecStudentMatcherFair): provided every call awaited is answered,
\* a raised isLoading is eventually lowered and a raised isExporting is
\* eventually lowered, whatever the searches and exports returned; and with
\* the flag lowered the handler is accepted again: performMatch whenever
\* canMatch holds, exportToExcel whenever its button is there.
C19_SearchAndExportEventuallyEnd ==
    /\ isLoading ~> ~isLoading
    /\ isExporting ~> ~isExporting
    /\ []((canMatch /\ PendingCount < MaxPending) => ENABLED PerformMatch)
    /\ []((hasSearched /\ ~isExporting /\ PendingCount < MaxPending)
              => ENABLED ExportToExcel)

\* A search failed, the flag is lowered and performMatch can run again.
C19_Witness ==
    /\ StartsWith(error, MatchFailedPrefix)
    /\ ~isLoading
    /\ searches = <<>>
    /\ canMatch
    /\ PendingCount < MaxPending

\* An export failed and the flag is lowered.
C19_WitnessExport ==
    /\ StartsWith(error, ExportFailedPrefix)
    /\ ~isExporting
    /\ hasSearched
    /\ exports = <<>>

\* The step ends the validation awaited at i by accepting its file.
ValidationAccepted(i) ==
    /\ validations' = RemoveAt(validations, i)
    /\ error' = ""
    /\ IF validations[i].fileType = "student"
       THEN /\ studentFile' = Some(FileInfo(validations[i].filePath))
            /\ difficultyFile' = difficultyFile
            /\ success' = StudentFileValidated
       ELSE /\ difficultyFile' = Some(FileInfo(validations[i].filePath))
            /\ studentFile' = studentFile
            /\ success' = DifficultyFileValidated

\* C20: studentFile and difficultyFile are set to a file only by a step that
\* ends a validation of that kind with the FileInfo the backend returned
\* for the validated path (success = true with data); a step that ends a
\* validation with a failure or a rejection shows an error and leaves both
\* files as they were.
C20_FilesSetOnlyByAcceptedValidation ==
    [][ /\ ((studentFile' # studentFile /\ studentFile' # None)
            \/ (difficultyFile' # difficultyFile /\ difficultyFile' # None)) =>
               \E i \in DOMAIN validations : ValidationAccepted(i)
        /\ Len(validations') < Len(validations) =>
               \/ \E i \in DOMAIN validations : ValidationAccepted(i)
               \/ /\ StartsWith(error', ValidationFailedPrefix)
                  /\ error' # ValidationFailedPrefix
                  /\ success' = ""
                  /\ studentFile' = studentFile
                  /\ difficultyFile' = difficultyFile
      ]_vars

\* A validation failed after both files had been selected: both are kept
\* and the error shows.
C20_Witness ==
    /\ studentFile # None
    /\ difficultyFile # None
    /\ StartsWith(error, ValidationFailedPrefix)
    /\ validations = <<>>


\* ------------------------------------------------------------------------
\* Claims about validateSearchParameters and searchInMatches
\* ------------------------------------------------------------------------

\* A string without a character other than white space.
IsBlank(s) == \A i \in 1..Len(s) : CharAt(s, i) \in WhiteSpace

\* The error text of each argument, in argument order.
MissingTexts ==
    <<SelectStudentFileText, SelectDifficultyFileText, SelectCategoryText>>

\* C21: validateSearchParameters returns (it throws for no string input),
\* valid is true exactly when none of the three arguments is blank, and
\* otherwise the error is that of the first blank argument in the order
\* student file, difficulty file, category.
C21_ValidIffNoArgumentBlank ==
    validity # None =>
        LET r == validity[1]
        IN  /\ r.valid \in BOOLEAN
            /\ r.valid <=> \A k \in 1..3 : ~IsBlank(parameters[k])
            /\ r.valid => r.error = None
            /\ ~r.valid =>
                   \E k \in 1..3 :
                       /\ IsBlank(parameters[k])
                       /\ \A j \in 1..(k - 1) : ~IsBlank(parameters[j])
                       /\ r.error = Some(MissingTexts[k])

\* The call has returned for a blank but non-empty difficulty file path that
\* is followed by a blank category.
C21_Witness ==
    /\ validity # None
    /\ ~IsBlank(parameters[1])
    /\ parameters[2] = " "
    /\ parameters[3] = ""
    /\ validity[1] = Invalid(SelectDifficultyFileText)

\* The call has returned valid for arguments with surrounding white space.
C21_WitnessValid ==
    /\ validity # None
    /\ validity[1].valid
    /\ \E k \in 1..3 : Trim(parameters[k]) # parameters[k]

\* a is b with some elements left out, the others in b's order.
RECURSIVE IsSubList(_, _)
IsSubList(a, b) ==
    IF a = <<>> THEN TRUE
    ELSE IF b = <<>> THEN FALSE
    ELSE IF Head(a) = Head(b) THEN IsSubList(Tail(a), Tail(b))
    ELSE IsSubList(a, Tail(b))

\* C22: for every non-blank term that is a substring of a match's name or of
\* its id_number, the match is in the result of searchInMatches; the result
\* is a sub-list of the input in the input's order; a blank term returns the
\* input unchanged.
C22_TermInNameOrIdNumberFindsMatch ==
    searchOutput # None =>
        LET matches == searchInput.matches
            searchTerm == searchInput.searchTerm
            found == searchOutput[1]
        IN  /\ ~IsBlank(searchTerm) =>
                   \A i \in DOMAIN matches :
                       \/ Includes(matches[i].student.name, searchTerm)
                       \/ Includes(matches[i].student.id_number, searchTerm)
                       => matches[i] \in Range(found)
            /\ IsSubList(found, matches)
            /\ IsBlank(searchTerm) => found = matches

\* The parts of C22 other than the identity number: a term that is part of
\* the name finds the match, the result is a sub-list of the input, a blank
\* term returns the input.
C22_NameSubListAndBlankTerm ==
    searchOutput # None =>
        LET matches == searchInput.matches
            searchTerm == searchInput.searchTerm
            found == searchOutput[1]
        IN  /\ ~IsBlank(searchTerm) =>
                   \A i \in DOMAIN matches :
                       Includes(matches[i].student.name, searchTerm)
                       => matches[i] \in Range(found)
            /\ IsSubList(found, matches)
            /\ IsBlank(searchTerm) => found = matches

\* A term that is part of an identity number and has no upper-case letter
\* finds the match.
C22_LowerCaseTermInIdNumberFindsMatch ==
    searchOutput # None =>
        LET matches == searchInput.matches
            searchTerm == searchInput.searchTerm
        IN  ~IsBlank(searchTerm) /\ ToLowerCase(searchTerm) = searchTerm =>
                \A i \in DOMAIN matches :
                    Includes(matches[i].student.id_number, searchTerm)
                    => matches[i] \in Range(searchOutput[1])

\* The search has returned without the match whose identity number contains
\* the term.
C22_WitnessMissed ==
    /\ searchOutput # None
    /\ searchInput.searchTerm = "X"
    /\ \E i \in DOMAIN searchInput.matches :
           /\ Includes(searchInput.matches[i].student.id_number, "X")
           /\ searchInput.matches[i] \notin Range(searchOutput[1])

\* ------------------------------------------------------------------------
\* Claims about the combined result and the component's handlers
\* ------------------------------------------------------------------------

C23_WitnessNoMatch ==
    /\ searchResult # None
    /\ searchResult[1].success
    /\ students # <<>>
    /\ difficulties # <<>>
    /\ searchResult[1].matches = <<>>

\* The step resumes the performMatch call awaiting at i.
SearchResumes(i) == searches' = RemoveAt(Overtaking(searches, i), i)

\* The response of a search does not change the stored results once a search
\* started after it has completed.
OvertakenSearchLeavesResults ==
    \A i \in DOMAIN searches :
        SearchResumes(i) /\ searches[i].overtaken =>
            /\ matchResults' = matchResults
            /\ matchStatistics' = matchStatistics

\* While a search is in flight the loading flag is up.
LoadingWhileInFlight == searches' # <<>> => isLoading'

\* C24: matchResults and matchStatistics hold the response of the most
\* recently started search: when performMatch calls overlap, the response of
\* an earlier search never overwrites the results of a later one, and
\* isLoading stays true until the last search in flight has completed.
C24_LatestSearchWins ==
    [][OvertakenSearchLeavesResults /\ LoadingWhileInFlight]_vars

\* The first half of C24 on its own.
C24_EarlierResponseNeverOverwrites == [][OvertakenSearchLeavesResults]_vars

\* The second half of C24 on its own.
C24_LoadingUntilLastSearchEnds == [][LoadingWhileInFlight]_vars

\* The results as resetAll leaves them.
Cleared ==
    /\ matchResults = <<>>
    /\ matchStatistics = None
    /\ ~hasSearched

\* C25: resetAll leaves matchResults empty, matchStatistics null and
\* hasSearched false, and they stay so until a performMatch started after
\* the reset completes successfully: the response of a search that was in
\* flight when resetAll ran does not repopulate the results.
C25_ResetResultsStayCleared ==
    [][ /\ ResetAll => Cleared'
        /\ Cleared /\ ~Cleared' =>
               \E i \in DOMAIN searches :
                   /\ SearchResumes(i)
                   /\ ~searches[i].preReset
                   /\ hasSearched'
      ]_vars

\* What holds of C25: resetAll clears the results, and they change from the
\* cleared state only in a step that ends a search successfully.
C25_ClearedUntilSomeSearchSucceeds ==
    [][ /\ ResetAll => Cleared'
        /\ Cleared /\ ~Cleared' =>
               \E i \in DOMAIN searches : SearchResumes(i) /\ hasSearched'
      ]_vars

\* The number of pending timers of setError ("error") or setSuccess
\* ("success").
TimersOf(kind) == Cardinality({i \in DOMAIN timers : timers[i] = kind})

\* The step fires a timer.
TimerFires == Len(timers') = Len(timers) - 1

\* The step fires the timer of the message on display: timers of one kind
\* fire in the order they were set and the message on display was set last,
\* so its timer is the only pending one of its kind.
OwnTimerFires(kind) == TimerFires /\ TimersOf(kind) = 1

\* The step shows a newer message, starts performMatch or is resetAll.
ReplacedOrCleared ==
    \/ Len(timers') > Len(timers)
    \/ Len(searches') > Len(searches)
    \/ ResetAll

\* C27: the expiry timer of an earlier message never clears a later one: a
\* message set by setError (setSuccess) stays on display until its own timer
\* fires, unless it is replaced by a newer message or cleared by performMatch
\* or resetAll.
C27_MessageStaysUntilOwnTimer ==
    [][ /\ error # "" /\ error' # error =>
               OwnTimerFires("error") \/ ReplacedOrCleared
        /\ success # "" /\ success' # success =>
               OwnTimerFires("success") \/ ReplacedOrCleared
      ]_vars

\* What holds of C27: a message on display changes only when a timer of its
\* kind fires, a newer message is shown, performMatch starts or resetAll runs.
C27_MessageStaysUntilSomeTimer ==
    [][ /\ error # "" /\ error' # error =>
               \/ TimerFires /\ TimersOf("error") >= 1 /\ error' = ""
               \/ ReplacedOrCleared
        /\ success # "" /\ success' # success =>
               \/ TimerFires /\ TimersOf("success") >= 1 /\ success' = ""
               \/ ReplacedOrCleared
      ]_vars

\* C28: at most one of the two banners is set: error and success are never
\* both non-empty.
C28_NeverBothBanners == error = "" \/ success = ""

\* An error is on display while a timer of setSuccess is still pending: the
\* success message was replaced by the error.
C28_Witness ==
    /\ error # ""
    /\ success = ""
    /\ TimersOf("success") >= 1

\* A success message is on display while a timer of setError is pending.
C28_WitnessSuccess ==
    /\ success # ""
    /\ error = ""
    /\ TimersOf("error") >= 1

\* Every stored match is of the category.
ResultsOf(category) ==
    \A i \in DOMAIN matchResults :
        matchResults[i].difficult_info.difficulty_type = category

\* C26: whenever results are displayed (hasSearched), the category shown
\* with them and used in the export file name, selectedDifficultyType, is the
\* category the displayed search was run with: every match in matchResults
\* has difficulty_type equal to the displayed category.
C26_DisplayedCategoryIsSearchedCategory ==
    hasSearched => ResultsOf(selectedDifficultyType)

\* What holds of C26: a step that ends a search successfully stores matches
\* of the category that search was started with.
C26_ResultsAreOfTheCategorySearched ==
    [][ \A i \in DOMAIN searches :
            SearchResumes(i) /\ hasSearched' /\ matchResults' # matchResults =>
                \A k \in DOMAIN matchResults' :
                    matchResults'[k].difficult_info.difficulty_type
                        = searches[i].difficultyType
      ]_vars

\* The step calls export_matches_to_excel from the dialog awaited at i.
ExportInvoked(i) ==
    /\ i \in DOMAIN exports
    /\ i \in DOMAIN exports'
    /\ exports[i].phase = "dialog"
    /\ exports'[i].phase = "invoked"

\* The step shows the message of a finished export.
ShowsExportDone ==
    /\ Len(timers') > Len(timers)
    /\ StartsWith(success', "ChengGongDaoChu ")

\* C30: exportToExcel calls export_matches_to_excel only with a non-empty
\* match list and an output path ending in ".xlsx"; when matchResults is
\* empty or the save dialog is cancelled no export call is made, and a
\* success message is shown only when the export result has success = true.
C30_ExportOnlyOfNonEmptyList ==
    [][ /\ \A i \in DOMAIN exports' :
               ExportInvoked(i) =>
                   /\ matchResults # <<>>
                   /\ exports'[i].matches # <<>>
                   /\ EndsWith(exports'[i].outputPath, ".xlsx")
        /\ Len(exports') < Len(exports) /\ ~ShowsExportDone =>
               InvokedExports(exports') \subseteq InvokedExports(exports)
        /\ ShowsExportDone =>
               \E i \in InvokedExports(exports) :
                   /\ exports' = RemoveAt(exports, i)
                   /\ Fulfilled(Success(exports[i].outputPath))
                          \in ExportOutcomes(exports[i].outputPath)
      ]_vars

\* What holds of C30: the click on an empty list starts no dialog and no
\* call, a call is made only from a returned dialog and with a path ending
\* in ".xlsx", and the message of a finished export is shown only in a step
\* that ends a call.
C30_ExportOnlyFromDialogWithExtension ==
    [][ /\ \A i \in DOMAIN exports' :
               ExportInvoked(i) => EndsWith(exports'[i].outputPath, ".xlsx")
        /\ InvokedExports(exports') \subseteq
               InvokedExports(exports) \cup {i \in DOMAIN exports : ExportInvoked(i)}
        /\ Len(exports') > Len(exports) =>
               /\ matchResults # <<>>
               /\ exports'[Len(exports')].phase = "dialog"
        /\ ShowsExportDone =>
               \E i \in InvokedExports(exports) : exports' = RemoveAt(exports, i)
      ]_vars

\* C29: after any sequence of goToPage, nextPage, prevPage, performMatch
\* (successful or failed) and resetAll, currentPage is at least 1 and,
\* whenever matchResults is not empty, at most totalPages, so that the
\* displayed page is not empty while results exist.
C29_CurrentPageWithinPages ==
    /\ currentPage >= 1
    /\ matchResults # <<>> =>
           /\ currentPage <= totalPages
           /\ paginatedResults # <<>>

\* The second page of eleven results is displayed: its one row.
C29_Witness ==
    /\ Len(matchResults) = itemsPerPage + 1
    /\ currentPage = 2
    /\ Len(paginatedResults) = 1

\* A search failed while the second page was displayed: the page is kept.
C29_WitnessFailedSearch ==
    /\ currentPage = 2
    /\ ~hasSearched
    /\ StartsWith(error, MatchFailedPrefix)

\* A search of the other category has replaced the eleven results by one.
C29_WitnessShorterList ==
    /\ hasSearched
    /\ Len(matchResults) = 1
    /\ currentPage = 1

====
